---- MODULE Spec2Model ----
(***************************************************************************)
(* State-machine model of the Total Care landing page scripts:             *)
(*   Navigation        (mobile menu, header style on scroll)               *)
(*   App / FormHandler (bootstrap, placeholder form submission)            *)
(*   ScrollAnimations  (fade-in reveal on viewport entry)                  *)
(* Each component has its own specification (SpecNav, SpecForm, SpecBoot,  *)
(* SpecAnim); the variables of the other components stay at their initial  *)
(* values.                                                                 *)
(***************************************************************************)
EXTENDS Integers, Sequences, FiniteSets, TLC

VARIABLES
  \* ---- the page the scripts run in (fixed once chosen) ----
  hasHeader,        \* document.getElementById('header') finds an element
  hasMenuBtn,       \* ... 'mobile-menu-btn'
  hasMenu,          \* ... 'mobile-menu'
  menuClosePos,     \* 'mobile-menu-close': "absent" | "inMenu" | "outside"
  \* ---- Navigation ----
  navInited,        \* init of the Navigation component has run
  isMenuOpen,       \* module flag isMenuOpen
  menuOpenClass,    \* mobileMenu.classList contains 'open'
  ariaExpanded,     \* mobileMenuBtn aria-expanded attribute
  bodyOverflow,     \* document.body.style.overflow
  headerClasses,    \* header.classList, restricted to the three style classes
  scrollY,          \* window.scrollY
  lastScrollY,      \* module variable lastScrollY
  rafQueue,         \* updateHeaderOnScroll callbacks queued for the next frame
  runsInFrame,      \* updateHeaderOnScroll runs made by the latest frame
  lastEvent,        \* the latest event dispatched, with isMenuOpen before it
  \* ---- the opted-in form and its environment (fixed once chosen) ----
  hasSubmitBtn,     \* form.querySelector('button[type="submit"]') finds a button
  origLabel,        \* the submit button's text in the markup
  fromEntriesOk,    \* Object.fromEntries exists (else line 176 throws a TypeError)
  \* ---- FormHandler ----
  btnDisabled,      \* submitBtn.disabled
  btnLabel,         \* submitBtn.textContent
  fieldsDirty,      \* the form fields hold user input (form.reset() clears it)
  msgs,             \* every message element created: [type, timer], by creation
  formMsgs,         \* the '.form-message' elements in the form, in DOM order
  runs,             \* every handleSubmit run started: "awaiting" | "success" | "error"
  \* ---- the page, as main.js and scroll-animations.js see it ----
  hasLucide,        \* the global lucide with createIcons exists
  hasIO,            \* 'IntersectionObserver' in window
  numSections,      \* number of section[id] elements
  numNavLinks,      \* number of nav a[href^="#"] elements
  fadeIn,           \* the elements carrying the 'fade-in' class
  \* ---- App / FormHandler bootstrap ----
  bootState,        \* the DOM-ready callback of main.js: "pending" | "done" | "threw"
  bodyClasses,      \* document.body.classList, restricted to loading / loaded
  iconsCreated,     \* lucide.createIcons() has been called
  sectionsObserved, \* the active-navigation observer observes the sections
  appInitDone,      \* App.init ran to its last line
  formInitDone,     \* FormHandler.init ran: the submit listeners are bound
  submitListeners,  \* submit listeners FormHandler.init has added to the form
  \* ---- ScrollAnimations ----
  animInited,       \* init of ScrollAnimations has run at least once
  observer,         \* module variable observer: 0 (null) or the observer's number
  numObservers,     \* IntersectionObserver instances created so far
  observed,         \* targets each observer instance currently observes
  animatedElements, \* module variable animatedElements
  visible,          \* the elements carrying the 'visible' class
  scheduled,        \* reveal timers started so far, per element
  pending,          \* reveal timers started and not yet fired, per element
  \* ---- the document tree getStaggerDelay reads ----
  domParent,        \* parentElement of each node (0 is the outermost container)
  domFade,          \* the nodes carrying the 'fade-in' class
  staggerElem,      \* the element getStaggerDelay was last called with (0: none)
  staggerDelay,     \* the delay that call returned
  \* ---- active navigation link ----
  navHrefs,         \* the section each nav a[href^="#"] targets (0: no section's id)
  activeLinks,      \* the nav links carrying 'text-primary-dark'
  batchCount,       \* intersecting entries in the latest observer batch
  batchFirst,       \* the section of the first intersecting entry of that batch
  batchLast,        \* the section of the last intersecting entry of that batch
  lastCall,         \* what marked the links last: a batch or a direct call, and its list
  \* ---- smooth scrolling ----
  docIds,           \* the ids of the elements of the document
  headerHeight,     \* header.offsetHeight
  targetTop,        \* distance of a target element from the top of the page
  anchor,           \* the latest anchor click: href and what the handler did
  \* ---- Utils.debounce ----
  now,              \* the clock, in milliseconds
  wait,             \* the wait argument of Utils.debounce
  timeout,          \* the closure's variable: id of the timer set last, 0 before any
  timers,           \* the timers set by the wrapper that have neither fired nor been cleared
  calls,            \* history: time and arguments of each call of the wrapper
  invoked           \* history: time and arguments of each invocation of func

navVars == <<navInited, isMenuOpen, menuOpenClass, ariaExpanded, bodyOverflow,
             headerClasses, scrollY, lastScrollY, rafQueue, runsInFrame, lastEvent>>
pageVars == <<hasHeader, hasMenuBtn, hasMenu, menuClosePos>>
formEnv == <<hasSubmitBtn, origLabel, fromEntriesOk>>
formVars == <<btnDisabled, btnLabel, fieldsDirty, msgs, formMsgs, runs>>
bootEnv == <<hasLucide, hasIO, numSections, numNavLinks, fadeIn>>
bootVars == <<bootState, bodyClasses, iconsCreated, sectionsObserved, appInitDone,
              formInitDone, submitListeners>>
animVars == <<animInited, observer, numObservers, observed, animatedElements,
              visible, scheduled, pending>>
staggerVars == <<domParent, domFade, staggerElem, staggerDelay>>
activeVars == <<navHrefs, activeLinks, batchCount, batchFirst, batchLast, lastCall>>
scrollVars == <<docIds, headerHeight, targetTop, anchor>>
debounceVars == <<now, wait, timeout, timers, calls, invoked>>
vars == <<pageVars, navVars, formEnv, formVars, bootEnv, bootVars, animVars, staggerVars,
          activeVars, scrollVars, debounceVars>>

\* ------------------------------------------------------------------ bounds
MaxPending == 3
MaxRuns == 3
MaxMsgs == 4
MaxCount == 2
NumElems == 2
MaxObservers == 2
MaxTimers == 2
NumNodes == 4
NumLinks == 3
NumSectionIds == 2
MaxBatch == 2
MaxIdLen == 2
MaxHistory == 2
MaxTime == 6
MaxCalls == 3
MaxListeners == 2
Elems == 1..NumElems
ScrollOffsets == {0, 50, 100, 101, 150}
ClickTargets == {"toggle", "close", "menuLink", "menu", "outside"}
Keys == {"Escape", "Enter"}
StyleClasses == {"shadow-md", "bg-white/70", "bg-white/95"}

\* ============================================================== Navigation
scrollThreshold == 100

\* The element references init caches, as every listener sees them (listeners
\* are bound by init, after the references are cached).
header == hasHeader
mobileMenuBtn == hasMenuBtn
mobileMenu == hasMenu
mobileMenuClose == menuClosePos # "absent"

\* bindEvents is reached only when the header exists.
eventsBound == navInited /\ header

MenuRec == [isMenuOpen |-> isMenuOpen, menuOpenClass |-> menuOpenClass,
            ariaExpanded |-> ariaExpanded, bodyOverflow |-> bodyOverflow]

updateMenuState_NoScrollUnlock(m) ==
  IF ~mobileMenu \/ ~mobileMenuBtn THEN m
  ELSE IF m.isMenuOpen
       THEN [m EXCEPT !.menuOpenClass = TRUE, !.ariaExpanded = "true",
                      !.bodyOverflow = "hidden"]
       ELSE [m EXCEPT !.menuOpenClass = FALSE, !.ariaExpanded = "false"]

updateMenuState(m) ==
  IF ~mobileMenu \/ ~mobileMenuBtn THEN m
  ELSE IF m.isMenuOpen
       THEN [m EXCEPT !.menuOpenClass = TRUE, !.ariaExpanded = "true",
                      !.bodyOverflow = "hidden"]
       ELSE [m EXCEPT !.menuOpenClass = FALSE, !.ariaExpanded = "false",
                      !.bodyOverflow = ""]

toggleMobileMenu(m) == updateMenuState([m EXCEPT !.isMenuOpen = ~m.isMenuOpen])

closeMobileMenu(m) ==
  IF m.isMenuOpen THEN updateMenuState([m EXCEPT !.isMenuOpen = FALSE]) ELSE m

\* mobileMenu.contains(event.target) and mobileMenuBtn.contains(event.target)
InsideMenu(t) == t \in {"menuLink", "menu"} \/ (t = "close" /\ menuClosePos = "inMenu")
OnToggle(t) == t = "toggle"

handleOutsideClick_ClosesInside(m, t) ==
  IF ~m.isMenuOpen \/ ~mobileMenu THEN m
  ELSE IF InsideMenu(t) /\ ~(mobileMenuBtn /\ OnToggle(t)) THEN closeMobileMenu(m) ELSE m

handleOutsideClick_IgnoresToggle(m, t) ==
  IF ~m.isMenuOpen \/ ~mobileMenu THEN m
  ELSE IF ~InsideMenu(t) THEN closeMobileMenu(m) ELSE m

handleOutsideClick(m, t) ==
  IF ~m.isMenuOpen \/ ~mobileMenu THEN m
  ELSE IF ~InsideMenu(t) /\ ~(mobileMenuBtn /\ OnToggle(t)) THEN closeMobileMenu(m) ELSE m

handleEscapeKey(m, key) ==
  IF key = "Escape" /\ m.isMenuOpen THEN closeMobileMenu(m) ELSE m

\* The listeners bindEvents attached to the element the click lands on.
TargetListeners(m, t) ==
  CASE t = "toggle" -> toggleMobileMenu(m)
    [] t = "close" -> closeMobileMenu(m)
    [] t = "menuLink" -> closeMobileMenu(m)
    [] OTHER -> m

\* One click: the target's own listener, then the document listener.
DispatchClick(m, t) == handleOutsideClick(TargetListeners(m, t), t)

TargetExists(t) ==
  CASE t = "toggle" -> hasMenuBtn
    [] t = "close" -> menuClosePos # "absent"
    [] t \in {"menuLink", "menu"} -> hasMenu
    [] OTHER -> TRUE

SetMenu(m) ==
  /\ isMenuOpen' = m.isMenuOpen
  /\ menuOpenClass' = m.menuOpenClass
  /\ ariaExpanded' = m.ariaExpanded
  /\ bodyOverflow' = m.bodyOverflow

HeaderRec == [classes |-> headerClasses, lastScrollY |-> lastScrollY, runs |-> 0]

updateHeaderOnScroll_AtThreshold(h, y) ==
  IF ~header THEN [h EXCEPT !.runs = h.runs + 1]
  ELSE IF y >= scrollThreshold
       THEN [h EXCEPT !.classes = (h.classes \cup {"shadow-md", "bg-white/95"})
                                  \ {"bg-white/70"},
                      !.lastScrollY = y, !.runs = h.runs + 1]
       ELSE [h EXCEPT !.classes = (h.classes \cup {"bg-white/70"})
                                  \ {"shadow-md", "bg-white/95"},
                      !.lastScrollY = y, !.runs = h.runs + 1]

updateHeaderOnScroll(h, y) ==
  IF ~header THEN [h EXCEPT !.runs = h.runs + 1]
  ELSE IF y > scrollThreshold
       THEN [h EXCEPT !.classes = (h.classes \cup {"shadow-md", "bg-white/95"})
                                  \ {"bg-white/70"},
                      !.lastScrollY = y, !.runs = h.runs + 1]
       ELSE [h EXCEPT !.classes = (h.classes \cup {"bg-white/70"})
                                  \ {"shadow-md", "bg-white/95"},
                      !.lastScrollY = y, !.runs = h.runs + 1]

\* A frame runs every callback requestAnimationFrame queued since the last one.
RECURSIVE RunFrameCallbacks(_, _, _)
RunFrameCallbacks(n, h, y) ==
  IF n = 0 THEN h ELSE RunFrameCallbacks(n - 1, updateHeaderOnScroll(h, y), y)

SetHeader(h) ==
  /\ headerClasses' = h.classes
  /\ lastScrollY' = h.lastScrollY

menuVars == <<isMenuOpen, menuOpenClass, ariaExpanded, bodyOverflow>>
headerVars == <<headerClasses, lastScrollY>>

otherThanNav == <<formEnv, formVars, bootEnv, bootVars, animVars, staggerVars,
                  activeVars, scrollVars, debounceVars>>

\* Navigation.init, at DOM-ready or through the public API. A repeated call
\* finds the same elements, adds no second listener (the same functions are
\* registered on the same targets) and runs updateHeaderOnScroll again.
NavInit ==
  /\ navInited' = TRUE
  /\ IF header
     THEN SetHeader(updateHeaderOnScroll(HeaderRec, scrollY))
     ELSE UNCHANGED headerVars
  /\ lastEvent' = <<"init", isMenuOpen>>
  /\ UNCHANGED <<menuVars, scrollY, rafQueue, runsInFrame, pageVars, otherThanNav>>

\* A click on target t: every listener the click reaches runs, in order.
Click(t) ==
  /\ eventsBound
  /\ TargetExists(t)
  /\ SetMenu(DispatchClick(MenuRec, t))
  /\ lastEvent' = <<t, isMenuOpen>>
  /\ UNCHANGED <<navInited, headerVars, scrollY, rafQueue, runsInFrame, pageVars, otherThanNav>>

\* A keydown event on the document.
KeyDown(key) ==
  /\ eventsBound
  /\ SetMenu(handleEscapeKey(MenuRec, key))
  /\ lastEvent' = <<key, isMenuOpen>>
  /\ UNCHANGED <<navInited, headerVars, scrollY, rafQueue, runsInFrame, pageVars, otherThanNav>>

\* The public Navigation.closeMobileMenu()
ApiCloseMobileMenu ==
  /\ SetMenu(closeMobileMenu(MenuRec))
  /\ lastEvent' = <<"apiClose", isMenuOpen>>
  /\ UNCHANGED <<navInited, headerVars, scrollY, rafQueue, runsInFrame, pageVars, otherThanNav>>

\* A scroll event with the page at offset y (the offset it had or another one)
\* reaches handleScroll, which queues one updateHeaderOnScroll callback for the
\* next frame.
handleScroll(q) == q + 1

Scroll(y) ==
  /\ scrollY' = y
  /\ IF eventsBound
     THEN /\ rafQueue < MaxPending
          /\ rafQueue' = handleScroll(rafQueue)
     ELSE UNCHANGED rafQueue
  /\ lastEvent' = <<"scroll", isMenuOpen>>
  /\ UNCHANGED <<navInited, menuVars, headerVars, runsInFrame, pageVars, otherThanNav>>

\* The browser renders a frame: the queued animation-frame callbacks all run.
AnimationFrame ==
  /\ rafQueue > 0
  /\ LET h == RunFrameCallbacks(rafQueue, HeaderRec, scrollY)
     IN /\ SetHeader(h)
        /\ runsInFrame' = h.runs
  /\ rafQueue' = 0
  /\ lastEvent' = <<"frame", isMenuOpen>>
  /\ UNCHANGED <<navInited, menuVars, scrollY, pageVars, otherThanNav>>

NavStart ==
  /\ hasHeader \in BOOLEAN
  /\ hasMenuBtn \in BOOLEAN
  /\ hasMenu \in BOOLEAN
  /\ menuClosePos \in {"absent", "inMenu", "outside"}
  /\ navInited = FALSE
  /\ isMenuOpen = FALSE
  /\ menuOpenClass = FALSE
  /\ ariaExpanded = "false"
  /\ bodyOverflow = ""
  /\ headerClasses \in SUBSET StyleClasses
  /\ scrollY \in ScrollOffsets
  /\ lastScrollY = 0
  /\ rafQueue = 0
  /\ runsInFrame = 0
  /\ lastEvent = <<"none", FALSE>>

NavIdle ==
  /\ hasHeader = TRUE
  /\ hasMenuBtn = TRUE
  /\ hasMenu = TRUE
  /\ menuClosePos = "inMenu"
  /\ navInited = FALSE
  /\ isMenuOpen = FALSE
  /\ menuOpenClass = FALSE
  /\ ariaExpanded = "false"
  /\ bodyOverflow = ""
  /\ headerClasses = {"bg-white/70"}
  /\ scrollY = 0
  /\ lastScrollY = 0
  /\ rafQueue = 0
  /\ runsInFrame = 0
  /\ lastEvent = <<"none", FALSE>>

NextNav ==
  \/ NavInit
  \/ \E t \in ClickTargets : Click(t)
  \/ \E key \in Keys : KeyDown(key)
  \/ ApiCloseMobileMenu
  \/ \E y \in ScrollOffsets : Scroll(y)
  \/ AnimationFrame

\* ============================================================= FormHandler
FormRec == [btnDisabled |-> btnDisabled, btnLabel |-> btnLabel,
            fieldsDirty |-> fieldsDirty, msgs |-> msgs, formMsgs |-> formMsgs]

SetForm(f) ==
  /\ btnDisabled' = f.btnDisabled
  /\ btnLabel' = f.btnLabel
  /\ fieldsDirty' = f.fieldsDirty
  /\ msgs' = f.msgs
  /\ formMsgs' = f.formMsgs

RemoveMsg(seq, m) == SelectSeq(seq, LAMBDA x : x # m)

\* showMessage: remove the first '.form-message' of the form, append a new
\* element and start its 5-second removal timer.
showMessage_KeepsExisting(f, type) ==
  LET id == Len(f.msgs) + 1
  IN [f EXCEPT !.msgs = Append(f.msgs, [type |-> type, timer |-> "pending"]),
               !.formMsgs = Append(f.formMsgs, id)]

showMessage_CancelsEarlierTimer(f, type) ==
  LET kept == IF f.formMsgs # <<>> THEN Tail(f.formMsgs) ELSE <<>>
      id == Len(f.msgs) + 1
      old == [m \in 1..Len(f.msgs) |->
                IF f.msgs[m].timer = "pending"
                THEN [f.msgs[m] EXCEPT !.timer = "cancelled"] ELSE f.msgs[m]]
  IN [f EXCEPT !.msgs = Append(old, [type |-> type, timer |-> "pending"]),
               !.formMsgs = Append(kept, id)]

showMessage(f, type) ==
  LET kept == IF f.formMsgs # <<>> THEN Tail(f.formMsgs) ELSE <<>>
      id == Len(f.msgs) + 1
  IN [f EXCEPT !.msgs = Append(f.msgs, [type |-> type, timer |-> "pending"]),
               !.formMsgs = Append(kept, id)]

\* Lines 168-171 and 189-192: the submit button, when the form has one.
DisableSubmit(f) ==
  IF hasSubmitBtn THEN [f EXCEPT !.btnDisabled = TRUE, !.btnLabel = "Sending..."] ELSE f
EnableSubmit(f) ==
  IF hasSubmitBtn THEN [f EXCEPT !.btnDisabled = FALSE, !.btnLabel = "Submit"] ELSE f

\* handleSubmit up to its first suspension (the await), or to its end when the
\* try block throws before suspending: [f |-> form state, run |-> state of the run].
handleSubmitBegin_CleanupOnSuccessOnly(f) ==
  IF fromEntriesOk
  THEN [f |-> DisableSubmit(f), run |-> "awaiting"]
  ELSE [f |-> showMessage(DisableSubmit(f), "error"), run |-> "error"]

handleSubmitBegin(f) ==
  IF fromEntriesOk
  THEN [f |-> DisableSubmit(f), run |-> "awaiting"]
  ELSE [f |-> EnableSubmit(showMessage(DisableSubmit(f), "error")), run |-> "error"]

\* handleSubmit from the await to its end.
handleSubmitResume_NoReset(f) ==
  [f |-> EnableSubmit(showMessage(f, "success")), run |-> "success"]

handleSubmitResume(f) ==
  [f |-> EnableSubmit([showMessage(f, "success") EXCEPT !.fieldsDirty = FALSE]),
   run |-> "success"]

Awaiting == {r \in 1..Len(runs) : runs[r] = "awaiting"}
PendingRemovals == {m \in 1..Len(msgs) : msgs[m].timer = "pending"}
Min(S) == CHOOSE x \in S : \A y \in S : x <= y

\* Every message a started run or a call will still create fits the bound.
RoomForMessage == Len(msgs) + Cardinality(Awaiting) < MaxMsgs

otherThanForm == <<pageVars, navVars, bootEnv, bootVars, animVars, staggerVars,
                  activeVars, scrollVars, debounceVars>>

\* The user edits a field of the form.
UserTypes ==
  /\ ~fieldsDirty
  /\ fieldsDirty' = TRUE
  /\ UNCHANGED <<btnDisabled, btnLabel, msgs, formMsgs, runs, formEnv, otherThanForm>>

\* n listeners run one after the other, each up to its first suspension:
\* [f |-> form state, runs |-> the state of each run, in order].
RECURSIVE dispatchSubmit(_, _)
dispatchSubmit(f, n) ==
  IF n = 0 THEN [f |-> f, runs |-> <<>>]
  ELSE LET res == handleSubmitBegin(f)
           rest == dispatchSubmit(res.f, n - 1)
       IN [f |-> rest.f, runs |-> <<res.run>> \o rest.runs]

\* A submit event on the form: every listener FormHandler.init has added runs
\* handleSubmit to its first suspension.
Submit ==
  /\ submitListeners >= 1
  /\ Len(runs) + submitListeners <= MaxRuns
  /\ Len(msgs) + Cardinality(Awaiting) + submitListeners <= MaxMsgs
  /\ LET res == dispatchSubmit(FormRec, submitListeners)
     IN /\ SetForm(res.f)
        /\ runs' = runs \o res.runs
  /\ UNCHANGED <<formEnv, otherThanForm>>

\* A direct call of the public FormHandler.handleSubmit with an event of the form.
ApiHandleSubmit ==
  /\ Len(runs) < MaxRuns
  /\ RoomForMessage
  /\ LET res == handleSubmitBegin(FormRec)
     IN /\ SetForm(res.f)
        /\ runs' = Append(runs, res.run)
  /\ UNCHANGED <<formEnv, otherThanForm>>

\* The 1000 ms timer of the oldest suspended run fires and the run resumes.
SubmitDelayElapses ==
  /\ Awaiting # {}
  /\ LET r == Min(Awaiting)
         res == handleSubmitResume(FormRec)
     IN /\ SetForm(res.f)
        /\ runs' = [runs EXCEPT ![r] = res.run]
  /\ UNCHANGED <<formEnv, otherThanForm>>

\* A direct call of the public FormHandler.showMessage on the form.
ApiShowMessage(type) ==
  /\ RoomForMessage
  /\ SetForm(showMessage(FormRec, type))
  /\ UNCHANGED <<runs, formEnv, otherThanForm>>

\* The 5000 ms timer of the oldest message still waiting fires: msgElement.remove()
msgElementRemove_FirstInForm(f, m) ==
  [f EXCEPT !.msgs[m].timer = "fired",
            !.formMsgs = IF f.formMsgs # <<>> THEN Tail(f.formMsgs) ELSE <<>>]

msgElementRemove(f, m) ==
  [f EXCEPT !.msgs[m].timer = "fired", !.formMsgs = RemoveMsg(f.formMsgs, m)]

RemovalTimerFires ==
  /\ PendingRemovals # {}
  /\ SetForm(msgElementRemove(FormRec, Min(PendingRemovals)))
  /\ UNCHANGED <<runs, formEnv, otherThanForm>>

FormStart ==
  /\ hasSubmitBtn \in BOOLEAN
  /\ origLabel \in {"Submit", "Send Message"}
  /\ fromEntriesOk \in BOOLEAN
  /\ btnDisabled = FALSE
  /\ btnLabel = origLabel
  /\ fieldsDirty = FALSE
  /\ msgs = <<>>
  /\ formMsgs = <<>>
  /\ runs = <<>>

FormIdle ==
  /\ hasSubmitBtn = TRUE
  /\ origLabel = "Submit"
  /\ fromEntriesOk = TRUE
  /\ btnDisabled = FALSE
  /\ btnLabel = origLabel
  /\ fieldsDirty = FALSE
  /\ msgs = <<>>
  /\ formMsgs = <<>>
  /\ runs = <<>>

\* ======================================================== ScrollAnimations
AnimRec == [observer |-> observer, numObservers |-> numObservers,
            observed |-> observed, animatedElements |-> animatedElements,
            visible |-> visible, scheduled |-> scheduled, pending |-> pending]

SetAnim(a) ==
  /\ observer' = a.observer
  /\ numObservers' = a.numObservers
  /\ observed' = a.observed
  /\ animatedElements' = a.animatedElements
  /\ visible' = a.visible
  /\ scheduled' = a.scheduled
  /\ pending' = a.pending

\* Fallback without IntersectionObserver: every '.fade-in' element gets 'visible'.
showAllElements(a) == [a EXCEPT !.visible = a.visible \cup fadeIn]

\* observer.disconnect() on instance o
disconnect(a, o) == [a EXCEPT !.observed[o] = {}]

init(a) ==
  IF ~hasIO THEN showAllElements(a)
  ELSE IF fadeIn = {} THEN [a EXCEPT !.animatedElements = fadeIn]
  ELSE LET o == a.numObservers + 1
       IN [a EXCEPT !.animatedElements = fadeIn,
                    !.numObservers = o,
                    !.observer = o,
                    !.observed[o] = fadeIn]

reset_ClearsVisible(a) ==
  init([(IF a.observer # 0 THEN disconnect(a, a.observer) ELSE a) EXCEPT !.visible = {}])

reset(a) == init(IF a.observer # 0 THEN disconnect(a, a.observer) ELSE a)

destroy(a) ==
  [(IF a.observer # 0 THEN disconnect(a, a.observer) ELSE a)
     EXCEPT !.observer = 0, !.animatedElements = {}]

handleIntersection_KeepsObserving(a, o, S) ==
  [a EXCEPT !.scheduled = [e \in Elems |-> IF e \in S THEN @[e] + 1 ELSE @[e]],
            !.pending = [e \in Elems |-> IF e \in S THEN @[e] + 1 ELSE @[e]]]

\* handleIntersection for the entries of instance o that are intersecting, S:
\* one reveal timer per entry, and the instance stops observing the element.
handleIntersection(a, o, S) ==
  [a EXCEPT !.scheduled = [e \in Elems |-> IF e \in S THEN @[e] + 1 ELSE @[e]],
            !.pending = [e \in Elems |-> IF e \in S THEN @[e] + 1 ELSE @[e]],
            !.observed[o] = @ \ S]

\* The reveal timer's callback: element.classList.add('visible')
revealCallback(a, e) ==
  [a EXCEPT !.visible = @ \cup {e}, !.pending[e] = @ - 1]

animateElement(a, e) ==
  IF e \in fadeIn THEN [a EXCEPT !.visible = @ \cup {e}] ELSE a

otherThanAnim == <<pageVars, navVars, formEnv, formVars, bootVars, staggerVars,
                  activeVars, scrollVars, debounceVars>>

\* ScrollAnimations.init, at DOM-ready or through the public API.
AnimInit ==
  /\ numObservers < MaxObservers
  /\ SetAnim(init(AnimRec))
  /\ animInited' = TRUE
  /\ UNCHANGED <<bootEnv, otherThanAnim>>

AnimReset ==
  /\ numObservers < MaxObservers
  /\ SetAnim(reset(AnimRec))
  /\ animInited' = TRUE
  /\ UNCHANGED <<bootEnv, otherThanAnim>>

AnimDestroy ==
  /\ SetAnim(destroy(AnimRec))
  /\ UNCHANGED <<animInited, bootEnv, otherThanAnim>>

\* Observer instance o delivers a batch whose intersecting entries are S (its
\* entries that are not intersecting change nothing).
Intersect(o, S) ==
  /\ S # {}
  /\ S \subseteq observed[o]
  /\ \A e \in S : scheduled[e] < MaxTimers
  /\ SetAnim(handleIntersection(AnimRec, o, S))
  /\ UNCHANGED <<animInited, bootEnv, otherThanAnim>>

RevealTimerFires(e) ==
  /\ pending[e] > 0
  /\ SetAnim(revealCallback(AnimRec, e))
  /\ UNCHANGED <<animInited, bootEnv, otherThanAnim>>

\* The public ScrollAnimations.animateElement(element)
AnimateElement(e) ==
  /\ SetAnim(animateElement(AnimRec, e))
  /\ UNCHANGED <<animInited, bootEnv, otherThanAnim>>

AnimState0 ==
  /\ animInited = FALSE
  /\ observer = 0
  /\ numObservers = 0
  /\ observed = [o \in 1..MaxObservers |-> {}]
  /\ animatedElements = {}
  /\ visible = {}
  /\ scheduled = [e \in Elems |-> 0]
  /\ pending = [e \in Elems |-> 0]

AnimStart ==
  /\ hasIO \in BOOLEAN
  /\ fadeIn \in SUBSET Elems
  /\ hasLucide = TRUE
  /\ numSections = 1
  /\ numNavLinks = 1
  /\ AnimState0

AnimIdle == AnimState0

NextAnim ==
  \/ AnimInit
  \/ AnimReset
  \/ AnimDestroy
  \/ \E o \in 1..MaxObservers : \E S \in SUBSET Elems : Intersect(o, S)
  \/ \E e \in Elems : RevealTimerFires(e)
  \/ \E e \in Elems : AnimateElement(e)

\* ====================================== ScrollAnimations: getStaggerDelay
staggerStep == 100
Nodes == 1..NumNodes

Children(n) == {c \in Nodes : domParent[c] = n}

\* The nodes of a set in ascending order (children are numbered in DOM order).
RECURSIVE Ascending(_)
Ascending(S) ==
  IF S = {} THEN <<>>
  ELSE LET m == CHOOSE x \in S : \A y \in S : x <= y
       IN <<m>> \o Ascending(S \ {m})

\* The subtree of n in document order (n first), and that of a list of nodes.
RECURSIVE Subtree(_), Subtrees(_)
Subtree(n) == <<n>> \o Subtrees(Ascending(Children(n)))
Subtrees(seq) ==
  IF seq = <<>> THEN <<>> ELSE Subtree(Head(seq)) \o Subtrees(Tail(seq))

\* parent.querySelectorAll('.fade-in'): the matching descendants, in document order
querySelectorAll_ChildrenOnly(p) ==
  SelectSeq(Ascending(Children(p)), LAMBDA n : n \in domFade)

querySelectorAll(p) == SelectSeq(Tail(Subtree(p)), LAMBDA n : n \in domFade)

\* Array.prototype.indexOf, zero-based
indexOf(seq, x) == (CHOOSE i \in 1..Len(seq) : seq[i] = x) - 1

getStaggerDelay(element) ==
  LET siblings == querySelectorAll(domParent[element])
  IN indexOf(siblings, element) * staggerStep

\* handleIntersection computes the delay of an intersecting '.fade-in' element.
ComputeStaggerDelay(e) ==
  /\ e \in domFade
  /\ staggerElem # e
  /\ staggerElem' = e
  /\ staggerDelay' = getStaggerDelay(e)
  /\ UNCHANGED <<domParent, domFade, pageVars, navVars, formEnv, formVars, bootEnv,
                 bootVars, animVars, activeVars, scrollVars, debounceVars>>

StaggerStart ==
  /\ domParent \in {f \in [Nodes -> 0..NumNodes] : \A n \in Nodes : f[n] < n}
  /\ domFade \in SUBSET Nodes
  /\ staggerElem = 0
  /\ staggerDelay = 0

StaggerIdle ==
  /\ domParent = [n \in Nodes |-> 0]
  /\ domFade = Nodes
  /\ staggerElem = 0
  /\ staggerDelay = 0

NextStagger == \E e \in Nodes : ComputeStaggerDelay(e)

\* ============================================ Navigation: smooth scrolling
\* Strings are sequences over a three-letter alphabet: '#', a letter, a digit.
Chars == {"#", "a", "1"}
RECURSIVE Strings(_)
Strings(n) ==
  IF n = 0 THEN {<<>>}
  ELSE LET shorter == Strings(n - 1)
       IN shorter \cup {Append(q, c) : q \in {r \in shorter : Len(r) = n - 1}, c \in Chars}
Ids == Strings(MaxIdLen) \ {<<>>}
Hrefs == {<<"#">> \o id : id \in Strings(MaxIdLen)} \cup {<<"a">>, <<"a", "#">>}

startsWithHash(href) == href # <<>> /\ href[1] = "#"

\* Whether '#' + id parses as a CSS id selector: the identifier must not start
\* with a digit and must not contain '#'.
ValidIdSelector(id) ==
  /\ id # <<>>
  /\ id[1] = "a"
  /\ \A i \in 1..Len(id) : id[i] # "#"

\* document.querySelector(href) for an href that starts with '#':
\* "throws" (SyntaxError), "found" or "null".
querySelector(href) ==
  IF ~ValidIdSelector(Tail(href)) THEN "throws"
  ELSE IF Tail(href) \in docIds THEN "found" ELSE "null"

NoAction(href) ==
  [href |-> href, prevented |-> FALSE, scrolled |-> FALSE, top |-> 0,
   pushed |-> FALSE, threw |-> FALSE]

handleSmoothScroll(href) ==
  IF startsWithHash(href) /\ Len(href) > 1
  THEN LET found == querySelector(href)
       IN IF found = "throws" THEN [NoAction(href) EXCEPT !.threw = TRUE]
          ELSE IF found = "found"
          THEN [NoAction(href) EXCEPT
                  !.prevented = TRUE,
                  !.scrolled = TRUE,
                  !.top = (targetTop - scrollY) + scrollY
                          - (IF header THEN headerHeight ELSE 0),
                  !.pushed = TRUE]
          ELSE NoAction(href)
  ELSE NoAction(href)

\* A click on a link that init bound handleSmoothScroll to; anchor.entries counts
\* the history entries pushed so far.
AnchorClick(href) ==
  /\ eventsBound
  /\ anchor.entries < MaxHistory
  /\ LET did == handleSmoothScroll(href)
     IN anchor' = [did |-> did,
                   entries |-> anchor.entries + (IF did.pushed THEN 1 ELSE 0)]
  /\ UNCHANGED <<docIds, headerHeight, targetTop, pageVars, navVars, formEnv, formVars,
                 bootEnv, bootVars, animVars, staggerVars, activeVars, debounceVars>>

ScrollStart ==
  /\ docIds \in {{}} \cup {{id} : id \in Ids}
  /\ headerHeight \in {0, 64}
  /\ targetTop = 300
  /\ anchor = [did |-> NoAction(<<>>), entries |-> 0]

ScrollIdle ==
  /\ docIds = {}
  /\ headerHeight = 64
  /\ targetTop = 300
  /\ anchor = [did |-> NoAction(<<>>), entries |-> 0]

NextScroll == \E href \in Hrefs : AnchorClick(href)

\* ========================================================= Utils.debounce
Args == {"x", "y"}
Waits == {1, 2}

DebounceRec == [timeout |-> timeout, timers |-> timers, invoked |-> invoked]

SetDebounce(d) ==
  /\ timeout' = d.timeout
  /\ timers' = d.timers
  /\ invoked' = d.invoked

clearTimeout(ts, id) == {t \in ts : t.id # id}

\* setTimeout(later, wait): a new timer whose callback holds this call's args.
setTimeout(ts, id, args) == ts \cup {[id |-> id, due |-> now + wait, args |-> args]}

executedFunction_NoClear(d, args) ==
  LET id == Len(calls) + 1
  IN [d EXCEPT !.timers = setTimeout(d.timers, id, args),
               !.timeout = id]

\* The wrapper debounce returns, called with args.
executedFunction(d, args) ==
  LET id == Len(calls) + 1
  IN [d EXCEPT !.timers = setTimeout(clearTimeout(d.timers, d.timeout), id, args),
               !.timeout = id]

\* The callback of timer t: clearTimeout(timeout), then func(...args).
later(d, t) ==
  [d EXCEPT !.timers = clearTimeout(d.timers \ {t}, d.timeout),
            !.invoked = Append(d.invoked, [time |-> now, args |-> t.args])]

Due == {t \in timers : t.due <= now}

otherThanDebounce == <<pageVars, navVars, formEnv, formVars, bootEnv, bootVars, animVars,
                       staggerVars, activeVars, scrollVars>>

\* A call of the debounced function, at any time; a timer that has fallen due
\* and has not run yet is cleared like any other.
DebouncedCall(args) ==
  /\ Len(calls) < MaxCalls
  /\ SetDebounce(executedFunction(DebounceRec, args))
  /\ calls' = Append(calls, [time |-> now, args |-> args])
  /\ UNCHANGED <<now, wait, otherThanDebounce>>

TimeoutFires ==
  /\ \E t \in Due : SetDebounce(later(DebounceRec, t))
  /\ UNCHANGED <<now, wait, calls, otherThanDebounce>>

\* One millisecond passes; a timer that is due may run later than its due time.
Tick ==
  /\ now < MaxTime
  /\ now' = now + 1
  /\ UNCHANGED <<wait, timeout, timers, calls, invoked, otherThanDebounce>>

DebounceStart ==
  /\ now = 0
  /\ wait \in Waits
  /\ timeout = 0
  /\ timers = {}
  /\ calls = <<>>
  /\ invoked = <<>>

DebounceIdle ==
  /\ now = 0
  /\ wait = 1
  /\ timeout = 0
  /\ timers = {}
  /\ calls = <<>>
  /\ invoked = <<>>

NextDebounce ==
  \/ \E args \in Args : DebouncedCall(args)
  \/ TimeoutFires
  \/ Tick

\* ================================================= App: active nav link
Links == 1..NumLinks
SectionIds == 1..NumSectionIds

\* An observer batch: entries [target |-> section, isIntersecting |-> BOOLEAN]
Entries == [target : SectionIds, isIntersecting : BOOLEAN]
RECURSIVE SeqsUpTo(_)
SeqsUpTo(n) ==
  IF n = 0 THEN {<<>>}
  ELSE LET shorter == SeqsUpTo(n - 1)
       IN shorter \cup {Append(q, x) : q \in {r \in shorter : Len(r) = n - 1}, x \in Entries}
Batches == SeqsUpTo(MaxBatch) \ {<<>>}

\* setActiveNavLink(sectionId, navLinks): of the links in navLinks, the marker is
\* added to those whose href is '#' + id and removed from the others; links that
\* are not in navLinks keep what they have.
setActiveNavLink_AddOnly(active, sectionId, navLinks) ==
  active \cup {l \in navLinks : navHrefs[l] = sectionId}

setActiveNavLink(active, sectionId, navLinks) ==
  (active \cup {l \in navLinks : navHrefs[l] = sectionId})
     \ {l \in navLinks : navHrefs[l] # sectionId}

\* The observer callback: entries.forEach, in the order of the batch, with the
\* nav links initActiveNavigation collected.
RECURSIVE observerCallback_FirstWins(_, _)
observerCallback_FirstWins(active, entries) ==
  IF entries = <<>> THEN active
  ELSE IF Head(entries).isIntersecting
       THEN setActiveNavLink(active, Head(entries).target, Links)
       ELSE observerCallback_FirstWins(active, Tail(entries))

RECURSIVE observerCallback(_, _)
observerCallback(active, entries) ==
  IF entries = <<>> THEN active
  ELSE observerCallback(
         IF Head(entries).isIntersecting
         THEN setActiveNavLink(active, Head(entries).target, Links) ELSE active,
         Tail(entries))

Intersecting(entries) == SelectSeq(entries, LAMBDA x : x.isIntersecting)

\* The section observer delivers a batch of entries.
SectionBatch(entries) ==
  /\ sectionsObserved
  /\ activeLinks' = observerCallback(activeLinks, entries)
  /\ LET hit == Intersecting(entries)
     IN /\ batchCount' = Len(hit)
        /\ batchFirst' = IF hit = <<>> THEN 0 ELSE hit[1].target
        /\ batchLast' = IF hit = <<>> THEN 0 ELSE hit[Len(hit)].target
  /\ lastCall' = [op |-> "batch", navLinks |-> Links]
  /\ UNCHANGED <<navHrefs, pageVars, navVars, formEnv, formVars, bootEnv, bootVars,
                 animVars, staggerVars, scrollVars, debounceVars>>

\* The ids a direct call can name: 0 and the section ids, which links may
\* target, and one id that no link targets.
CallIds == 0..(NumSectionIds + 1)

\* A direct call of the public App.setActiveNavLink(sectionId, navLinks) with any
\* list of nav links.
ApiSetActiveNavLink(sectionId, navLinks) ==
  /\ activeLinks' = setActiveNavLink(activeLinks, sectionId, navLinks)
  /\ lastCall' = [op |-> "api", navLinks |-> navLinks]
  /\ UNCHANGED <<navHrefs, batchCount, batchFirst, batchLast, pageVars, navVars, formEnv,
                 formVars, bootEnv, bootVars, animVars, staggerVars, scrollVars,
                 debounceVars>>

ActiveStart ==
  /\ navHrefs \in [Links -> 0..NumSectionIds]
  /\ activeLinks = {}
  /\ batchCount = 0
  /\ batchFirst = 0
  /\ batchLast = 0
  /\ lastCall = [op |-> "none", navLinks |-> {}]

ActiveIdle ==
  /\ navHrefs = [l \in Links |-> 1]
  /\ activeLinks = {}
  /\ batchCount = 0
  /\ batchFirst = 0
  /\ batchLast = 0
  /\ lastCall = [op |-> "none", navLinks |-> {}]

NextActive ==
  \/ \E entries \in Batches : SectionBatch(entries)
  \/ \E sectionId \in CallIds : \E navLinks \in SUBSET Links :
       ApiSetActiveNavLink(sectionId, navLinks)

\* ============================================= App / FormHandler bootstrap
BootRec == [bodyClasses |-> bodyClasses, iconsCreated |-> iconsCreated,
            sectionsObserved |-> sectionsObserved, appInitDone |-> appInitDone,
            formInitDone |-> formInitDone, submitListeners |-> submitListeners,
            threw |-> FALSE]

\* The page before any function of main.js has run.
BootRec0 == [bodyClasses |-> {"loading"}, iconsCreated |-> FALSE,
             sectionsObserved |-> FALSE, appInitDone |-> FALSE,
             formInitDone |-> FALSE, submitListeners |-> 0, threw |-> FALSE]

SetBootFields(b) ==
  /\ bodyClasses' = b.bodyClasses
  /\ iconsCreated' = b.iconsCreated
  /\ sectionsObserved' = b.sectionsObserved
  /\ appInitDone' = b.appInitDone
  /\ formInitDone' = b.formInitDone
  /\ submitListeners' = b.submitListeners

SetBoot(b) ==
  /\ SetBootFields(b)
  /\ bootState' = IF b.threw THEN "threw" ELSE "done"

setLoaded(b) == [b EXCEPT !.bodyClasses = (@ \ {"loading"}) \cup {"loaded"}]

initIcons(b) == IF hasLucide THEN [b EXCEPT !.iconsCreated = TRUE] ELSE b

\* new IntersectionObserver(...) is a ReferenceError where the constructor is
\* missing; nothing in initActiveNavigation tests for it.
initActiveNavigation(b) ==
  IF numSections = 0 \/ numNavLinks = 0 THEN b
  ELSE IF ~hasIO THEN [b EXCEPT !.threw = TRUE]
  ELSE [b EXCEPT !.sectionsObserved = TRUE]

AppInit(b) ==
  LET b3 == initActiveNavigation(initIcons(setLoaded(b)))
  IN IF b3.threw THEN b3 ELSE [b3 EXCEPT !.appInitDone = TRUE]

\* FormHandler.init: handleSubmit.bind(this) is a new function at every call,
\* so every call adds one more submit listener to the form.
FormHandlerInit(b) ==
  [b EXCEPT !.formInitDone = TRUE, !.submitListeners = @ + 1]

\* The DOM-ready callback of main.js: App.init(); FormHandler.init();
DomReady(b) ==
  LET b1 == AppInit(b)
  IN IF b1.threw THEN b1 ELSE FormHandlerInit(b1)

otherThanBoot == <<pageVars, navVars, formEnv, formVars, animVars, staggerVars,
                  activeVars, scrollVars, debounceVars>>

MainBootstrap ==
  /\ bootState = "pending"
  /\ submitListeners < MaxListeners
  /\ SetBoot(DomReady(BootRec))
  /\ UNCHANGED <<bootEnv, otherThanBoot>>

\* The public functions of window.TotalCareApp, called directly; an error they
\* throw goes to the caller and leaves the DOM-ready callback as it was.
ApiAppInit ==
  /\ SetBootFields(AppInit(BootRec))
  /\ UNCHANGED <<bootState, bootEnv, otherThanBoot>>

ApiSetLoaded ==
  /\ SetBootFields(setLoaded(BootRec))
  /\ UNCHANGED <<bootState, bootEnv, otherThanBoot>>

ApiInitIcons ==
  /\ SetBootFields(initIcons(BootRec))
  /\ UNCHANGED <<bootState, bootEnv, otherThanBoot>>

ApiInitActiveNavigation ==
  /\ SetBootFields(initActiveNavigation(BootRec))
  /\ UNCHANGED <<bootState, bootEnv, otherThanBoot>>

ApiFormHandlerInit ==
  /\ submitListeners < MaxListeners
  /\ SetBootFields(FormHandlerInit(BootRec))
  /\ UNCHANGED <<bootState, bootEnv, otherThanBoot>>

\* The boot variables are what the DOM-ready callback leaves on this page.
AfterDomReady ==
  LET b == DomReady(BootRec0)
  IN /\ bootState = (IF b.threw THEN "threw" ELSE "done")
     /\ bodyClasses = b.bodyClasses
     /\ iconsCreated = b.iconsCreated
     /\ sectionsObserved = b.sectionsObserved
     /\ appInitDone = b.appInitDone
     /\ formInitDone = b.formInitDone
     /\ submitListeners = b.submitListeners

\* The DOM-ready listener of scroll-animations.js
AnimAutoInit == ~animInited /\ AnimInit

\* The page after a bootstrap in which nothing was missing.
Booted ==
  /\ hasLucide = TRUE
  /\ hasIO = TRUE
  /\ numSections = 1
  /\ numNavLinks = 1
  /\ fadeIn = Elems
  /\ bootState = "done"
  /\ bodyClasses = {"loaded"}
  /\ iconsCreated = TRUE
  /\ sectionsObserved = TRUE
  /\ appInitDone = TRUE
  /\ formInitDone = TRUE
  /\ submitListeners = 1

BootStart ==
  /\ hasLucide \in BOOLEAN
  /\ hasIO \in BOOLEAN
  /\ numSections \in 0..MaxCount
  /\ numNavLinks \in 0..MaxCount
  /\ fadeIn \in {{}, Elems}
  /\ bootState = "pending"
  /\ bodyClasses = {"loading"}
  /\ iconsCreated = FALSE
  /\ sectionsObserved = FALSE
  /\ appInitDone = FALSE
  /\ formInitDone = FALSE
  /\ submitListeners = 0

BootDone ==
  /\ bootState = "done"
  /\ bodyClasses = {"loaded"}
  /\ iconsCreated = TRUE
  /\ sectionsObserved = TRUE
  /\ appInitDone = TRUE
  /\ formInitDone = TRUE
  /\ submitListeners = 1

NextBoot ==
  \/ MainBootstrap
  \/ ApiAppInit
  \/ ApiSetLoaded
  \/ ApiInitIcons
  \/ ApiInitActiveNavigation
  \/ ApiFormHandlerInit
  \/ NavInit
  \/ AnimAutoInit

\* ------------------------------------------------------ FormHandler claims
MsgsInForm(type) == {k \in 1..Len(formMsgs) : msgs[formMsgs[k]].type = type}
OnlyRunSuspended == Len(runs) = 1 /\ runs[1] = "awaiting"
OnlyRunResumes == OnlyRunSuspended /\ runs'[1] = "success"

\* C3 as stated: for a single submission, the submit control is disabled and
\* labelled 'Sending...' while the handler is suspended; when the delay has
\* elapsed exactly one success message is in the form, the form has been reset,
\* and the control is enabled and carries its original text again.
C3_Original ==
  /\ [](OnlyRunSuspended /\ hasSubmitBtn => btnDisabled /\ btnLabel = "Sending...")
  /\ [][OnlyRunResumes =>
          (/\ Len(formMsgs) = 1
           /\ Cardinality(MsgsInForm("success")) = 1
           /\ ~fieldsDirty
           /\ hasSubmitBtn => (~btnDisabled /\ btnLabel = origLabel))']_vars

\* C3 amended: as above, but the control is relabelled 'Submit', whatever its
\* text was before the submission.
C3_SingleSubmission ==
  /\ [](OnlyRunSuspended /\ hasSubmitBtn => btnDisabled /\ btnLabel = "Sending...")
  /\ [][OnlyRunResumes =>
          (/\ Len(formMsgs) = 1
           /\ Cardinality(MsgsInForm("success")) = 1
           /\ ~fieldsDirty
           /\ hasSubmitBtn => (~btnDisabled /\ btnLabel = "Submit"))']_vars

\* The only submission of a form whose button read 'Send Message' has completed.
C3_Witness ==
  /\ runs = <<"success">>
  /\ hasSubmitBtn /\ origLabel = "Send Message"
  /\ Cardinality(MsgsInForm("success")) = 1
  /\ ~btnDisabled /\ btnLabel = "Submit"

RunEnds(r) ==
  /\ r <= Len(runs')
  /\ runs'[r] # "awaiting"
  /\ (r > Len(runs) \/ runs[r] = "awaiting")

\* C4: every handleSubmit run that starts eventually ends, and it ends with the
\* submit control enabled and labelled 'Submit'; a run that ends on the failure
\* path leaves an error message (no success message) in the form and does not
\* reset the form.
C4_CleanupAlwaysRuns ==
  /\ [][\A r \in 1..MaxRuns : RunEnds(r) =>
          /\ hasSubmitBtn => (~btnDisabled' /\ btnLabel' = "Submit")
          /\ runs'[r] = "error" =>
               /\ formMsgs' # <<>>
               /\ \A k \in 1..Len(formMsgs') : msgs'[formMsgs'[k]].type = "error"
               /\ fieldsDirty' = fieldsDirty]_vars
  /\ \A r \in 1..MaxRuns :
       (Len(runs) >= r) ~> (Len(runs) >= r /\ runs[r] # "awaiting")

\* A run has ended on the failure path over a form holding user input.
C4_Witness ==
  /\ Len(runs) >= 1 /\ runs[Len(runs)] = "error"
  /\ hasSubmitBtn /\ ~btnDisabled /\ btnLabel = "Submit"
  /\ fieldsDirty
  /\ Cardinality(MsgsInForm("error")) = 1

\* C5: the form never holds more than one '.form-message' element.
C5_AtMostOneMessage == Len(formMsgs) <= 1

\* A second message has replaced the first while the first's timer is still waiting.
C5_Witness ==
  /\ Len(msgs) >= 2
  /\ msgs[1].timer = "pending"
  /\ formMsgs = <<2>>

\* C6: a removal timer, once started, stays scheduled until it fires (nothing
\* cancels or postpones it), and once it has fired its message is not in the form.
C6_RemovalTimerStands ==
  /\ [][\A m \in 1..Len(msgs) :
          msgs[m].timer = "pending" => msgs'[m].timer \in {"pending", "fired"}]_vars
  /\ [](\A m \in 1..Len(msgs) :
          msgs[m].timer = "fired" => \A k \in 1..Len(formMsgs) : formMsgs[k] # m)

\* The first message's timer has fired after a later submission showed its own.
C6_Witness ==
  /\ Len(msgs) >= 2
  /\ msgs[1].timer = "fired"
  /\ msgs[2].timer = "pending"
  /\ formMsgs = <<2>>
  /\ Len(runs) >= 1

InitNav == NavStart /\ FormIdle /\ Booted /\ AnimIdle /\ StaggerIdle /\ ActiveIdle /\ ScrollIdle /\ DebounceIdle

SpecNav == InitNav /\ [][NextNav]_vars

\* FormHandler: the events of the form and the public functions of FormHandler.
NextForm ==
  \/ UserTypes
  \/ Submit
  \/ ApiHandleSubmit
  \/ ApiFormHandlerInit
  \/ SubmitDelayElapses
  \/ \E type \in {"success", "error"} : ApiShowMessage(type)
  \/ RemovalTimerFires

InitForm == FormStart /\ NavIdle /\ Booted /\ AnimIdle /\ StaggerIdle /\ ActiveIdle /\ ScrollIdle /\ DebounceIdle

SpecForm == InitForm /\ [][NextForm]_vars

\* The timers the page has started do fire.
FairSpecForm ==
  SpecForm /\ WF_vars(SubmitDelayElapses) /\ WF_vars(RemovalTimerFires)

InitAnim == AnimStart /\ AfterDomReady /\ NavIdle /\ FormIdle /\ StaggerIdle /\ ActiveIdle /\ ScrollIdle /\ DebounceIdle

SpecAnim == InitAnim /\ [][NextAnim]_vars

InitBoot ==
  /\ BootStart
  /\ ScrollIdle
  /\ DebounceIdle
  /\ ActiveIdle
  /\ StaggerIdle
  /\ AnimState0
  /\ FormIdle
  /\ hasHeader \in BOOLEAN
  /\ hasMenuBtn = TRUE
  /\ hasMenu = TRUE
  /\ menuClosePos = "inMenu"
  /\ navInited = FALSE
  /\ isMenuOpen = FALSE
  /\ menuOpenClass = FALSE
  /\ ariaExpanded = "false"
  /\ bodyOverflow = ""
  /\ headerClasses = {"bg-white/70"}
  /\ scrollY \in {0, 150}
  /\ lastScrollY = 0
  /\ rafQueue = 0
  /\ runsInFrame = 0
  /\ lastEvent = <<"none", FALSE>>

SpecBoot == InitBoot /\ [][NextBoot]_vars

InitStagger == StaggerStart /\ AnimIdle /\ Booted /\ NavIdle /\ FormIdle /\ ActiveIdle /\ ScrollIdle /\ DebounceIdle

SpecStagger == InitStagger /\ [][NextStagger]_vars

InitActive ==
  /\ ActiveStart
  /\ hasLucide = TRUE
  /\ hasIO = TRUE
  /\ numSections = NumSectionIds
  /\ numNavLinks = NumLinks
  /\ fadeIn = Elems
  /\ BootDone
  /\ AnimIdle
  /\ NavIdle
  /\ FormIdle
  /\ StaggerIdle
  /\ ScrollIdle
  /\ DebounceIdle

SpecActive == InitActive /\ [][NextActive]_vars

\* Smooth scrolling starts from a page whose Navigation.init has run.
InitScroll ==
  /\ ScrollStart
  /\ hasHeader = TRUE
  /\ hasMenuBtn = TRUE
  /\ hasMenu = TRUE
  /\ menuClosePos = "inMenu"
  /\ navInited = TRUE
  /\ isMenuOpen = FALSE
  /\ menuOpenClass = FALSE
  /\ ariaExpanded = "false"
  /\ bodyOverflow = ""
  /\ scrollY \in {0, 150}
  /\ lastScrollY = scrollY
  /\ headerClasses = (IF scrollY > scrollThreshold THEN {"shadow-md", "bg-white/95"}
                                                   ELSE {"bg-white/70"})
  /\ rafQueue = 0
  /\ runsInFrame = 0
  /\ lastEvent = <<"init", FALSE>>
  /\ FormIdle
  /\ Booted
  /\ AnimIdle
  /\ StaggerIdle
  /\ ActiveIdle
  /\ DebounceIdle

SpecScroll == InitScroll /\ [][NextScroll]_vars

InitDebounce ==
  /\ DebounceStart
  /\ NavIdle
  /\ FormIdle
  /\ Booted
  /\ AnimIdle
  /\ StaggerIdle
  /\ ActiveIdle
  /\ ScrollIdle

SpecDebounce == InitDebounce /\ [][NextDebounce]_vars

\* ------------------------------------------------------- Navigation claims

\* C1: with the menu panel and the trigger button present, the panel carries
\* 'open', aria-expanded is 'true' and body overflow is 'hidden' exactly when
\* isMenuOpen is true; otherwise the class is absent, aria-expanded is 'false'
\* and body overflow is ''.
C1_MenuDomMatchesState ==
  (hasMenu /\ hasMenuBtn) =>
     /\ menuOpenClass = isMenuOpen
     /\ ariaExpanded = (IF isMenuOpen THEN "true" ELSE "false")
     /\ bodyOverflow = (IF isMenuOpen THEN "hidden" ELSE "")

\* A menu with panel and button that was open and has been closed by a link click.
C1_Witness ==
  /\ hasMenu /\ hasMenuBtn
  /\ lastEvent = <<"menuLink", TRUE>>
  /\ ~isMenuOpen /\ ~menuOpenClass /\ bodyOverflow = ""

ClosingEvents == {"outside", "Escape", "menuLink"}

\* C2 as stated: an outside click, Escape and a menu-link click each leave an
\* open menu closed and a closed menu closed, and every click inside the panel
\* that is not on a link leaves an open menu open.
C2_Original ==
  /\ (hasMenu /\ lastEvent[1] \in ClosingEvents) => ~isMenuOpen
  /\ (hasMenu /\ lastEvent[2] /\ InsideMenu(lastEvent[1]) /\ lastEvent[1] # "menuLink")
        => isMenuOpen

\* C2 amended: an outside click, Escape and a menu-link click each leave an open
\* menu closed and a closed menu closed; a click inside the panel that is on
\* neither a link, the close button nor the trigger button leaves an open menu
\* open, and a click on the close button closes the menu wherever the button is.
C2_ClosingEvents ==
  /\ (hasMenu /\ lastEvent[1] \in ClosingEvents) => ~isMenuOpen
  /\ (hasMenu /\ lastEvent = <<"menu", TRUE>>) => isMenuOpen
  /\ lastEvent[1] = "close" => ~isMenuOpen

\* An open menu has just been closed by a click outside the panel and the button.
C2_Witness ==
  /\ hasMenu /\ hasMenuBtn
  /\ lastEvent = <<"outside", TRUE>>
  /\ ~isMenuOpen

\* C8: after every run of updateHeaderOnScroll the header carries the elevated
\* style exactly when the offset that run read is strictly greater than 100, and
\* the flat style otherwise (so at exactly 100 the flat style); never both.
C8_HeaderStyle ==
  (navInited /\ hasHeader) =>
     headerClasses = (IF lastScrollY > 100 THEN {"shadow-md", "bg-white/95"}
                                            ELSE {"bg-white/70"})

\* A frame has recomputed the header style at offset exactly 100.
C8_Witness ==
  /\ navInited /\ hasHeader
  /\ lastEvent[1] = "frame"
  /\ lastScrollY = 100
  /\ headerClasses = {"bg-white/70"}

\* C9: however many scroll events arrive between two frames, updateHeaderOnScroll
\* runs at most once in the next frame.
C9_CoalescedPerFrame == runsInFrame <= 1

\* ---------------------------------------------------------- bootstrap claims

\* C7: whatever is missing from the page (header, icon library, intersection
\* observer, sections or nav links), the DOM-ready callback of main.js runs
\* App.init to its end and then FormHandler.init.
C7_NoErrorPropagates ==
  bootState # "pending" => (bootState = "done" /\ appInitDone /\ formInitDone)

\* --------------------------------------------------- ScrollAnimations claims

\* C10: the 'visible' marker is one-way: no step removes it from an element, so
\* each element goes from absent to present at most once.
C10_RevealedOnceOneWay == [][visible \subseteq visible']_vars

\* An element revealed by a timer, re-observed after a reset, and revealed again
\* by a second timer after the observer was destroyed: it still carries 'visible'.
C10_Witness ==
  \E e \in Elems :
    /\ e \in visible
    /\ scheduled[e] >= 2
    /\ pending[e] = 0
    /\ observer = 0

Unobserved(e) == \A o \in 1..MaxObservers : e \notin observed[o]

\* C11 as stated: once an element has been handled as intersecting, no observer
\* observes it in any later state, whatever reset, init or destroy calls follow,
\* and no second reveal timer is ever scheduled for it.
C11_Original ==
  [][\A e \in Elems : scheduled[e] >= 1 =>
       /\ scheduled'[e] = scheduled[e]
       /\ Unobserved(e) => Unobserved(e)']_vars

\* C11 amended: handling an element as intersecting ends its observation by the
\* observer instance that delivered the entry, and an instance never observes
\* again an element it has stopped observing; a later init or reset creates a new
\* instance that observes the element again and may schedule another timer.
C11_StopsPerInstance ==
  [][/\ \A o \in 1..MaxObservers : o <= numObservers => observed'[o] \subseteq observed[o]
     /\ \A e \in Elems : scheduled'[e] > scheduled[e] =>
          \E o \in 1..MaxObservers : e \in observed[o] /\ e \notin observed'[o]]_vars

\* An element handled by the first instance has been observed again by the
\* instance a reset created, which has scheduled its second reveal timer.
C11_Witness ==
  \E e \in Elems :
    /\ scheduled[e] = 2
    /\ numObservers = 2
    /\ e \notin observed[1] /\ e \notin observed[2]

\* C16: destroy and reset leave the reveal timers already scheduled in place, and
\* a timer that fires makes its element visible; while the component is destroyed
\* (no current observer) no element is observed by any observer instance and no
\* reveal timer is scheduled.
C16_TeardownKeepsReveals ==
  /\ [](observer = 0 => \A e \in Elems : Unobserved(e))
  /\ [][/\ ((observer # 0 /\ observer' = 0) \/ numObservers' # numObservers)
             => pending' = pending
        /\ \A e \in Elems : pending'[e] < pending[e] => e \in visible'
        /\ (observer = 0 /\ observer' = 0) => scheduled' = scheduled]_vars

\* The part of C16 about timers in flight alone.
C16_InFlightTimersSurvive ==
  [][/\ ((observer # 0 /\ observer' = 0) \/ numObservers' # numObservers)
          => pending' = pending
     /\ \A e \in Elems : pending'[e] < pending[e] => e \in visible']_vars

\* The zero-based position of e among the children of its parent that carry
\* the 'fade-in' class.
SiblingIndex(e) ==
  Cardinality({c \in Children(domParent[e]) : c \in domFade /\ c < e})

\* C12: the delay getStaggerDelay returns is 100 ms times the element's
\* zero-based index among its siblings matching the selector, also when matching
\* elements are nested inside earlier siblings.
C12_StaggerBySiblingIndex ==
  staggerElem # 0 => staggerDelay = 100 * SiblingIndex(staggerElem)

\* --------------------------------------------------- active nav link claims

\* C13 as stated: at most one nav link carries the active marker, also when
\* several links share an href.
C13_Original == Cardinality(activeLinks) <= 1

\* All links carrying the active marker have the same href.
OneActiveHref == \A l1, l2 \in activeLinks : navHrefs[l1] = navHrefs[l2]

\* A full replace: a batch with an intersecting entry, or a direct call of
\* setActiveNavLink with every nav link in its list.
FullReplace ==
  \/ lastCall.op = "batch" /\ batchCount >= 1
  \/ lastCall.op = "api" /\ lastCall.navLinks = Links

\* C13 amended: the links carrying the active marker all have the same href, so
\* there is at most one of them when no two links share an href, in every state
\* reached by section intersection events and by calls of setActiveNavLink with
\* the full list of nav links; only a direct call with a list that leaves out
\* some nav link can end this, and the next full replace restores it.
C13_OneActiveHref ==
  /\ [](lastCall.op = "none" \/ FullReplace => OneActiveHref)
  /\ [][\/ lastCall'.op = "api" /\ lastCall'.navLinks # Links
        \/ OneActiveHref => OneActiveHref']_vars

\* Two links with the same href are both active after a batch, while a link
\* with another href is not.
C13_Witness ==
  /\ lastCall.op = "batch"
  /\ batchCount >= 1
  /\ Cardinality(activeLinks) >= 2
  /\ \E l \in Links : l \notin activeLinks

\* C14: after a batch the active links are exactly the links whose href targets
\* the last intersecting entry of the batch; a batch without an intersecting
\* entry leaves the active links as they were.
C14_LastWriteWins ==
  [][lastCall'.op = "batch" =>
       IF batchCount' = 0
       THEN activeLinks' = activeLinks
       ELSE activeLinks' = {l \in Links : navHrefs[l] = batchLast'}]_vars

\* A batch with two intersecting entries for different sections has been
\* processed, and some link targets the last of them.
C14_Witness ==
  /\ lastCall.op = "batch"
  /\ batchCount = 2
  /\ batchFirst # batchLast
  /\ activeLinks # {}
  /\ \E l \in Links : navHrefs[l] = batchFirst

\* C17: one click on the trigger button flips the menu state exactly once: after
\* the button's toggle handler and the document's outside-click handler have both
\* run, the menu is open if it was closed before the click and closed if it was
\* open.
C17_ToggleFlipsOnce ==
  lastEvent[1] = "toggle" => isMenuOpen = ~lastEvent[2]

\* A click on the trigger button opened the menu: the outside-click handler ran
\* with the menu already open and left it open.
C17_Witness ==
  /\ lastEvent = <<"toggle", FALSE>>
  /\ hasMenu
  /\ isMenuOpen
  /\ menuOpenClass

\* ------------------------------------------ FormHandler: overlapping runs

\* C18: in every state in which some handleSubmit run on the form has started and
\* has not finished its cleanup, the submit control is disabled and labeled
\* 'Sending...', whatever submit events arrive in between.
C18_DisabledWhileInFlight ==
  (hasSubmitBtn /\ Awaiting # {}) => (btnDisabled /\ btnLabel = "Sending...")

\* The message elements that are children of the form.
InForm(seq) == {seq[i] : i \in 1..Len(seq)}

\* C19: a removal timer removes only the message element it was started for: a
\* message leaves the form only in a step in which its own timer fires or in which
\* a later message is shown in its place.
C19_TimerRemovesOwnMessage ==
  [][\A m \in 1..Len(msgs) :
       (m \in InForm(formMsgs) /\ m \notin InForm(formMsgs')) =>
         \/ msgs[m].timer = "pending" /\ msgs'[m].timer = "fired"
         \/ Len(msgs') > Len(msgs)]_vars

\* The first message's timer has fired after a second message was shown; the
\* second message is still in the form, waiting for its own timer.
C19_Witness ==
  /\ Len(msgs) >= 2
  /\ msgs[1].timer = "fired"
  /\ msgs[2].timer = "pending"
  /\ formMsgs = <<2>>

\* ---------------------------------------------------- smooth scroll claims

\* C15: for a click on a link whose href starts with '#' and is longer than one
\* character, default navigation is suppressed, the scroll to (target position -
\* header height) starts and a history entry is pushed if and only if the document
\* has the element the href names; otherwise, and for the href '#', none of the
\* three happens.
C15_ScrollIffTargetExists ==
  LET did == anchor.did
  IN startsWithHash(did.href) =>
       IF Len(did.href) > 1 /\ Tail(did.href) \in docIds
       THEN did.prevented /\ did.scrolled /\ did.pushed
            /\ did.top = targetTop - headerHeight
       ELSE ~did.prevented /\ ~did.scrolled /\ ~did.pushed

\* --------------------------------------------------------- debounce claims

\* C20 as stated, in the part about bursts: when a call is followed by the next
\* call wait ms or more later, it ended a burst, and func has been invoked with
\* its arguments between the end of its wait and that next call.
C20_Original ==
  \A i \in 1..(Len(calls) - 1) :
    calls[i + 1].time - calls[i].time >= wait =>
      \E k \in 1..Len(invoked) :
        /\ invoked[k].args = calls[i].args
        /\ invoked[k].time >= calls[i].time + wait
        /\ invoked[k].time <= calls[i + 1].time

\* C20 amended: at most one timer of the wrapper is pending; every invocation of
\* func follows a call, carries the arguments of the most recent call, comes no
\* sooner than wait ms after it and leaves no timer pending, so that no second
\* invocation follows without a new call.
C20_InvokedForLatestCall ==
  /\ [](Cardinality(timers) <= 1)
  /\ [][Len(invoked') > Len(invoked) =>
          /\ calls # <<>>
          /\ Len(invoked') = Len(invoked) + 1
          /\ invoked'[Len(invoked')].args = calls[Len(calls)].args
          /\ invoked'[Len(invoked')].time - calls[Len(calls)].time >= wait
          /\ timers' = {}]_vars

\* A call made wait ms or more after the previous one, while that one's timer was
\* due and had not run, cancelled it: func was invoked once only, with the later
\* call's arguments.
C20_Witness ==
  /\ Len(calls) = 2
  /\ calls[2].time - calls[1].time >= wait
  /\ calls[1].args # calls[2].args
  /\ Len(invoked) = 1
  /\ invoked[1].args = calls[2].args
  /\ timers = {}

====
